---- MODULE Spec2Model ----
(***************************************************************************)
(* mwc: a word-count utility.  The model follows the default build of the  *)
(* repository (the chunked reader, src/unnamed/part_000): main, parseArgs, *)
(* processInput and printCounts.  A string is a sequence of one-character  *)
(* strings, a byte stream is a sequence of byte values 0..255.             *)
(***************************************************************************)
EXTENDS Integers, Sequences, FiniteSets, TLC

(***************************************************************************)
(* Bounds of the model.                                                    *)
(***************************************************************************)
MaxLen == 3        \* longest standard-input stream
MaxFiles == 2      \* most file operands on the command line
MaxFileLen == 1    \* longest file content in the multi-file runs
MaxArgs == 2       \* longest argument list in the argument-parsing runs

(***************************************************************************)
(* Program constants.                                                      *)
(***************************************************************************)
ChunkSize == 16384     \* buf := make([]byte, 16*1024)
RuneError == 65533     \* utf8.RuneError, U+FFFD

\* Bytes the streams are made of: '\n', ' ', 'a', a continuation byte (0xA0),
\* a two-byte lead (0xC2; C2 A0 is U+00A0, a space) and a three-byte lead
\* (0xE4; E4 A0 A0 is U+4820, a letter).
Alphabet == {10, 32, 97, 160, 194, 228}
FileAlphabet == {10, 97}

Metrics == {"lines", "words", "bytes", "characters"}

RECURSIVE SeqsUpTo(_, _)
SeqsUpTo(S, n) ==
    IF n = 0 THEN {<<>>}
    ELSE LET shorter == SeqsUpTo(S, n - 1)
         IN shorter \cup {Append(s, x) : s \in {t \in shorter : Len(t) = n - 1}, x \in S}

Min(a, b) == IF a < b THEN a ELSE b

(***************************************************************************)
(* unicode/utf8 and unicode, as processInput uses them.                    *)
(***************************************************************************)
\* utf8.DecodeRune: the first rune of p and its width in bytes; (RuneError, 1)
\* for a byte that starts no well-formed encoding in p.
DecodeRune(p) ==
    LET n == Len(p)
        p0 == p[1]
        bad == [r |-> RuneError, size |-> 1]
        sz == IF p0 < 224 THEN 2 ELSE IF p0 < 240 THEN 3 ELSE 4
        lo == IF p0 = 224 THEN 160 ELSE IF p0 = 240 THEN 144 ELSE 128
        hi == IF p0 = 237 THEN 159 ELSE IF p0 = 244 THEN 143 ELSE 191
        cont(b) == b >= 128 /\ b <= 191
    IN IF n < 1 THEN [r |-> RuneError, size |-> 0]
       ELSE IF p0 < 128 THEN [r |-> p0, size |-> 1]
       ELSE IF p0 < 194 \/ p0 > 244 THEN bad
       ELSE IF n < sz THEN bad
       ELSE IF p[2] < lo \/ hi < p[2] THEN bad
       ELSE IF sz = 2 THEN [r |-> (p0 % 32) * 64 + (p[2] % 64), size |-> 2]
       ELSE IF ~cont(p[3]) THEN bad
       ELSE IF sz = 3
            THEN [r |-> (p0 % 16) * 4096 + (p[2] % 64) * 64 + (p[3] % 64), size |-> 3]
       ELSE IF ~cont(p[4]) THEN bad
       ELSE [r |-> (p0 % 8) * 262144 + (p[2] % 64) * 4096 + (p[3] % 64) * 64 + (p[4] % 64),
             size |-> 4]

\* unicode.IsSpace
IsSpace(r) ==
    IF r <= 255 THEN r \in {9, 10, 11, 12, 13, 32, 133, 160}
    ELSE r \in ({5760, 8232, 8233, 8239, 8287, 12288} \cup (8192..8202))

\* p[k:]
Drop(p, k) == SubSeq(p, k + 1, Len(p))

\* utf8.RuneCount: the runes of p, a malformed or short encoding counting as one
\* rune of one byte.
RECURSIVE RuneCount(_)
RuneCount(p) ==
    IF Len(p) = 0 THEN 0 ELSE 1 + RuneCount(Drop(p, DecodeRune(p).size))

\* bytes.Count(chunk, []byte{sep})
RECURSIVE BytesCount(_, _)
BytesCount(p, sep) ==
    IF Len(p) = 0 THEN 0
    ELSE (IF p[1] = sep THEN 1 ELSE 0) + BytesCount(Drop(p, 1), sep)

(***************************************************************************)
(* processInput: the state of a counting pass and its steps.               *)
(***************************************************************************)
\* var byteCount, lineCount, wordCount, characterCount int64; inWord := false
NewPass == [byteCount |-> 0, lineCount |-> 0, wordCount |-> 0,
            characterCount |-> 0, inWord |-> FALSE]

\* The bytes of p that utf8.DecodeRune decodes into a rune other than RuneError.
RECURSIVE DecodedBytes(_)
DecodedBytes(p) ==
    IF Len(p) = 0 THEN 0
    ELSE LET d == DecodeRune(p)
         IN (IF d.r = RuneError THEN 0 ELSE d.size) + DecodedBytes(Drop(p, d.size))

\* Faulty variant: the byte count is summed from the widths of the decoded runes,
\* so a byte that fails to decode is dropped.
AddBytesDecoded(byteCount, chunk) == byteCount + DecodedBytes(chunk)

\* byteCount += int64(n)
AddBytes(byteCount, chunk) == byteCount + Len(chunk)

\* Faulty variant: a chunk that does not end in a newline counts one line more.
AddLinesTrailing(lineCount, chunk) ==
    lineCount + BytesCount(chunk, 10)
    + (IF Len(chunk) > 0 /\ chunk[Len(chunk)] # 10 THEN 1 ELSE 0)

\* lineCount += int64(bytes.Count(chunk, []byte{'\n'}))
AddLines(lineCount, chunk) == lineCount + BytesCount(chunk, 10)

\* The runes of p other than RuneError.
RECURSIVE DecodedRunes(_)
DecodedRunes(p) ==
    IF Len(p) = 0 THEN 0
    ELSE LET d == DecodeRune(p)
         IN (IF d.r = RuneError THEN 0 ELSE 1) + DecodedRunes(Drop(p, d.size))

\* Faulty variant: a byte that fails to decode is not counted as a character.
AddCharactersDecoded(characterCount, chunk) == characterCount + DecodedRunes(chunk)

\* characterCount += int64(utf8.RuneCount(chunk))
AddCharacters(characterCount, chunk) == characterCount + RuneCount(chunk)

\* One turn of the word loop on rune r, w = [inWord, wordCount].
WordStep(w, r) ==
    IF IsSpace(r) THEN [w EXCEPT !.inWord = FALSE]
    ELSE IF ~w.inWord THEN [inWord |-> TRUE, wordCount |-> w.wordCount + 1]
    ELSE w

\* for len(chunk) > 0 { r, size := utf8.DecodeRune(chunk); ...; chunk = chunk[size:] }
RECURSIVE WordLoop(_, _)
WordLoop(w, chunk) ==
    IF Len(chunk) = 0 THEN w
    ELSE LET d == DecodeRune(chunk)
         IN WordLoop(WordStep(w, d.r), Drop(chunk, d.size))

\* Faulty variant: every chunk starts outside a word.
CountChunkFreshWord(p, chunk) ==
    LET w == WordLoop([inWord |-> FALSE, wordCount |-> p.wordCount], chunk)
    IN [byteCount |-> AddBytes(p.byteCount, chunk),
        lineCount |-> AddLines(p.lineCount, chunk),
        characterCount |-> AddCharacters(p.characterCount, chunk),
        wordCount |-> w.wordCount,
        inWord |-> w.inWord]

\* The body of the read loop for one chunk buf[:n].
CountChunk(p, chunk) ==
    LET w == WordLoop([inWord |-> p.inWord, wordCount |-> p.wordCount], chunk)
    IN [byteCount |-> AddBytes(p.byteCount, chunk),
        lineCount |-> AddLines(p.lineCount, chunk),
        characterCount |-> AddCharacters(p.characterCount, chunk),
        wordCount |-> w.wordCount,
        inWord |-> w.inWord]

\* The metrics the options enable.
Requested(o) ==
    {m \in Metrics : \/ m = "bytes" /\ o.ByteCount
                     \/ m = "lines" /\ o.LineCount
                     \/ m = "words" /\ o.WordCount
                     \/ m = "characters" /\ o.CharacterCount}

\* The value of metric m in pass state p.
Counter(p, m) ==
    CASE m = "bytes" -> p.byteCount
      [] m = "lines" -> p.lineCount
      [] m = "words" -> p.wordCount
      [] m = "characters" -> p.characterCount

\* Faulty variant: every metric gets a key, 0 when it is not enabled.
BuildCountsAllKeys(o, p) ==
    [m \in Metrics |-> IF m \in Requested(o) THEN Counter(p, m) ELSE 0]

\* Faulty variant: runes are told apart only when words are wanted, so without
\* the word metric the character count is the byte count.
BuildCountsLazyDecode(o, p) ==
    [m \in Requested(o) |->
        IF m = "characters" /\ ~o.WordCount THEN p.byteCount ELSE Counter(p, m)]

\* The map processInput returns: one key per enabled metric.
BuildCounts(o, p) == [m \in Requested(o) |-> Counter(p, m)]

\* processInput on a stream delivered as the chunks cs, read to end-of-stream.
RECURSIVE CountChunks(_, _)
CountChunks(p, cs) ==
    IF Len(cs) = 0 THEN p ELSE CountChunks(CountChunk(p, Head(cs)), Tail(cs))

(***************************************************************************)
(* parseArgs, hasAnyOption, printCounts.                                   *)
(***************************************************************************)
NoOptions == [ByteCount |-> FALSE, LineCount |-> FALSE, WordCount |-> FALSE,
              CharacterCount |-> FALSE, Order |-> <<>>, HelpRequested |-> FALSE]

DefaultOrder == <<"lines", "words", "bytes">>

\* options.LineCount = true; options.WordCount = true; options.ByteCount = true
WithDefaults(o) ==
    [o EXCEPT !.LineCount = TRUE, !.WordCount = TRUE, !.ByteCount = TRUE,
              !.Order = DefaultOrder]

HelpArgs == {<<"-", "h">>, <<"-", "-", "h", "e", "l", "p">>}

HasDashPrefix(arg) == Len(arg) >= 1 /\ arg[1] = "-"

\* Faulty variant: a character that is no flag is skipped.
FlagCharIgnore(acc, c) ==
    LET o == acc.options
    IN CASE c = "l" -> [acc EXCEPT !.options =
              [o EXCEPT !.LineCount = TRUE, !.Order = Append(o.Order, "lines")]]
         [] c = "w" -> [acc EXCEPT !.options =
              [o EXCEPT !.WordCount = TRUE, !.Order = Append(o.Order, "words")]]
         [] c = "c" -> [acc EXCEPT !.options =
              [o EXCEPT !.ByteCount = TRUE, !.Order = Append(o.Order, "bytes")]]
         [] c = "m" -> [acc EXCEPT !.options =
              [o EXCEPT !.CharacterCount = TRUE,
                        !.Order = Append(o.Order, "characters")]]
         [] OTHER -> acc

\* The switch on one flag character; acc = [options, err].
FlagChar(acc, c) ==
    IF acc.err # <<>> THEN acc
    ELSE LET o == acc.options
         IN CASE c = "l" -> [acc EXCEPT !.options =
                   [o EXCEPT !.LineCount = TRUE, !.Order = Append(o.Order, "lines")]]
              [] c = "w" -> [acc EXCEPT !.options =
                   [o EXCEPT !.WordCount = TRUE, !.Order = Append(o.Order, "words")]]
              [] c = "c" -> [acc EXCEPT !.options =
                   [o EXCEPT !.ByteCount = TRUE, !.Order = Append(o.Order, "bytes")]]
              [] c = "m" -> [acc EXCEPT !.options =
                   [o EXCEPT !.CharacterCount = TRUE,
                             !.Order = Append(o.Order, "characters")]]
              [] OTHER -> [acc EXCEPT !.err = <<c>>]

RECURSIVE FlagChars(_, _)
FlagChars(acc, cs) ==
    IF Len(cs) = 0 THEN acc ELSE FlagChars(FlagChar(acc, Head(cs)), Tail(cs))

\* The loop over the arguments; st = [options, filenames, hasOptions, err, help].
RECURSIVE ParseLoop(_, _)
ParseLoop(st, as) ==
    IF Len(as) = 0 THEN st
    ELSE LET arg == Head(as)
         IN IF arg \in HelpArgs
            THEN [st EXCEPT !.options.HelpRequested = TRUE, !.help = TRUE]
            ELSE IF HasDashPrefix(arg)
            THEN LET acc == FlagChars([options |-> st.options, err |-> <<>>], Tail(arg))
                 IN IF acc.err # <<>>
                    THEN [st EXCEPT !.options = NoOptions, !.filenames = <<>>,
                                    !.hasOptions = TRUE, !.err = acc.err]
                    ELSE ParseLoop([st EXCEPT !.options = acc.options,
                                              !.hasOptions = TRUE], Tail(as))
            ELSE ParseLoop([st EXCEPT !.filenames = Append(st.filenames, arg)], Tail(as))

\* parseArgs: [options, filenames, err]; err is the illegal character, <<>> for nil.
parseArgs(as) ==
    LET st == ParseLoop([options |-> NoOptions, filenames |-> <<>>,
                         hasOptions |-> FALSE, err |-> <<>>, help |-> FALSE], as)
    IN IF st.err # <<>> \/ st.help
       THEN [options |-> st.options, filenames |-> st.filenames, err |-> st.err]
       ELSE [options |-> IF st.hasOptions THEN st.options ELSE WithDefaults(st.options),
             filenames |-> st.filenames, err |-> <<>>]

hasAnyOption(o) == o.LineCount \/ o.WordCount \/ o.ByteCount \/ o.CharacterCount

\* Faulty variant: the fields are written in a fixed order, whatever the order
\* asked for.
FieldsFixedOrder(counts, order) ==
    LET fixed == <<"lines", "words", "bytes", "characters">>
        at(k) == IF fixed[k] \in DOMAIN counts THEN <<counts[fixed[k]]>> ELSE <<>>
    IN at(1) \o at(2) \o at(3) \o at(4)

\* The fields printCounts writes: counts[k] for each k of order that is a key.
RECURSIVE Fields(_, _)
Fields(counts, order) ==
    IF Len(order) = 0 THEN <<>>
    ELSE (IF Head(order) \in DOMAIN counts THEN <<counts[Head(order)]>> ELSE <<>>)
         \o Fields(counts, Tail(order))

\* printCounts: one output line.
printCounts(counts, filename, order) ==
    [vals |-> Fields(counts, order), name |-> filename]

TotalName == <<"t", "o", "t", "a", "l">>

\* Faulty variant: totalCounts[k] = v, the last file's counts replace the sum.
AddTotalsOverwrite(total, counts) ==
    [k \in (DOMAIN total) \cup (DOMAIN counts) |->
        IF k \in DOMAIN counts THEN counts[k] ELSE total[k]]

\* for k, v := range counts { totalCounts[k] += v }
AddTotals(total, counts) ==
    [k \in (DOMAIN total) \cup (DOMAIN counts) |->
        (IF k \in DOMAIN total THEN total[k] ELSE 0)
        + (IF k \in DOMAIN counts THEN counts[k] ELSE 0)]

EmptyMap == [k \in {} |-> 0]

(***************************************************************************)
(* The program state.                                                      *)
(***************************************************************************)
VARIABLES
    args,         \* os.Args[1:]
    fs,           \* the files: name -> [exists, data]
    stdin,        \* the bytes of standard input
    pc,           \* "start", "loop" (range over filenames), "reading", "exit"
    options,      \* CountOptions, after the defaults of main
    filenames,    \* the file operands
    idx,          \* position of the range loop in filenames
    input,        \* the bytes of the stream of the current (or last) pass
    pos,          \* how many of them have been read
    pass,         \* the counters and inWord of the current (or last) pass
    chunks,       \* the chunks the reads of that pass returned, in order
    passEnd,      \* how that pass ended: "none", "eof", "err"
    counts,       \* the map the last processInput returned
    fileCounts,   \* []FileCount
    totalCounts,  \* map[string]int64
    stdout,       \* the lines printed
    stderr,       \* the messages reported
    exitCode,     \* -1 while running
    log           \* the streams opened, started and closed so far, in order

vars == <<args, fs, stdin, pc, options, filenames, idx, input, pos, pass, chunks,
          passEnd, counts, fileCounts, totalCounts, stdout, stderr, exitCode, log>>

FileArgs == {<<"f">>, <<"g">>}

\* A flag cluster enabling the metrics of M, "-" followed by their letters.
Cluster(M) ==
    <<"-">> \o (IF "lines" \in M THEN <<"l">> ELSE <<>>)
            \o (IF "words" \in M THEN <<"w">> ELSE <<>>)
            \o (IF "bytes" \in M THEN <<"c">> ELSE <<>>)
            \o (IF "characters" \in M THEN <<"m">> ELSE <<>>)

\* The flag part of a command line: nothing, or one cluster.
FlagArgs == {<<>>} \cup {<<Cluster(M)>> : M \in (SUBSET Metrics) \ {{}}}

ArgTokens ==
    {<<"-", "l">>, <<"-", "m">>, <<"-", "w", "l", "c">>, <<"-", "x">>,
     <<"-", "l", "b">>, <<"-">>} \cup HelpArgs \cup FileArgs

NoFiles == [f \in FileArgs |-> [exists |-> FALSE, data |-> <<>>]]

FileStates ==
    {[exists |-> FALSE, data |-> <<>>]}
    \cup {[exists |-> TRUE, data |-> d] : d \in SeqsUpTo(FileAlphabet, MaxFileLen)}

InitRest ==
    /\ pc = "start"
    /\ options = NoOptions
    /\ filenames = <<>>
    /\ idx = 1
    /\ input = <<>>
    /\ pos = 0
    /\ pass = NewPass
    /\ chunks = <<>>
    /\ passEnd = "none"
    /\ counts = EmptyMap
    /\ fileCounts = <<>>
    /\ totalCounts = EmptyMap
    /\ stdout = <<>>
    /\ stderr = <<>>
    /\ exitCode = -1
    /\ log = <<>>

\* Standard input holding any stream, under every selection.
InitStdin ==
    /\ args \in FlagArgs
    /\ stdin \in SeqsUpTo(Alphabet, MaxLen)
    /\ fs = NoFiles

\* File operands, each file missing or holding a short text.
InitFiles ==
    /\ \E fl \in FlagArgs, names \in SeqsUpTo(FileArgs, MaxFiles) \ {<<>>} :
          args = fl \o names
    /\ stdin = <<>>
    /\ fs \in [FileArgs -> FileStates]

\* Any short argument list over a fixed file system.
InitArgs ==
    /\ args \in SeqsUpTo(ArgTokens, MaxArgs)
    /\ stdin \in {<<>>, <<97, 10>>}
    /\ fs = [f \in FileArgs |-> IF f = <<"f">> THEN [exists |-> TRUE, data |-> <<97, 10>>]
                                ELSE [exists |-> FALSE, data |-> <<>>]]

Init == (InitStdin \/ InitFiles \/ InitArgs) /\ InitRest

(***************************************************************************)
(* main.                                                                   *)
(***************************************************************************)
\* Faulty variant: main leaves the options as parseArgs returned them.
MainOptionsAsParsed(o) == o

\* options after "if !hasAnyOption(options) { ... }"
MainOptions(o) == IF hasAnyOption(o) THEN o ELSE WithDefaults(o)

\* Faulty variant: the in-word flag of the previous pass is kept.
StartPassKeepsWord(data) ==
    /\ input' = data
    /\ pos' = 0
    /\ pass' = [NewPass EXCEPT !.inWord = pass.inWord]
    /\ chunks' = <<>>
    /\ passEnd' = "none"
    /\ pc' = "reading"

\* processInput begins: fresh counters on the stream data.
StartPass(data) ==
    /\ input' = data
    /\ pos' = 0
    /\ pass' = NewPass
    /\ chunks' = <<>>
    /\ passEnd' = "none"
    /\ pc' = "reading"

\* parseArgs fails: the error and the usage line on stderr, exit 1.
ArgError ==
    /\ pc = "start"
    /\ parseArgs(args).err # <<>>
    /\ stderr' = stderr \o <<[kind |-> "illegal option", what |-> parseArgs(args).err],
                             [kind |-> "usage", what |-> <<>>]>>
    /\ pc' = "exit"
    /\ exitCode' = 1
    /\ UNCHANGED <<args, log, fs, stdin, options, filenames, idx, input, pos, pass, chunks,
                   passEnd, counts, fileCounts, totalCounts, stdout>>

\* Faulty variant: the usage text is printed and the exit code is 1.
HelpExitFailure ==
    /\ pc = "start"
    /\ parseArgs(args).err = <<>>
    /\ parseArgs(args).options.HelpRequested
    /\ options' = MainOptions(parseArgs(args).options)
    /\ filenames' = parseArgs(args).filenames
    /\ stdout' = Append(stdout, [vals |-> <<>>, name |-> <<"u", "s", "a", "g", "e">>])
    /\ pc' = "exit"
    /\ exitCode' = 1
    /\ UNCHANGED <<args, log, fs, stdin, idx, input, pos, pass, chunks, passEnd, counts,
                   fileCounts, totalCounts, stderr>>

\* -h or --help: the usage text on stdout, exit 0.
Help ==
    /\ pc = "start"
    /\ parseArgs(args).err = <<>>
    /\ parseArgs(args).options.HelpRequested
    /\ options' = MainOptions(parseArgs(args).options)
    /\ filenames' = parseArgs(args).filenames
    /\ stdout' = Append(stdout, [vals |-> <<>>, name |-> <<"u", "s", "a", "g", "e">>])
    /\ pc' = "exit"
    /\ exitCode' = 0
    /\ UNCHANGED <<args, log, fs, stdin, idx, input, pos, pass, chunks, passEnd, counts,
                   fileCounts, totalCounts, stderr>>

\* Faulty variant: without any argument, or without an enabled flag, the usage
\* text is printed and the exit code is 1 instead of reading standard input.
StartStdinOrUsage ==
    /\ pc = "start"
    /\ parseArgs(args).err = <<>>
    /\ ~parseArgs(args).options.HelpRequested
    /\ Len(parseArgs(args).filenames) = 0
    /\ options' = MainOptions(parseArgs(args).options)
    /\ filenames' = <<>>
    /\ IF Len(args) = 0 \/ ~hasAnyOption(parseArgs(args).options)
       THEN /\ stdout' = Append(stdout, [vals |-> <<>>, name |-> <<"u", "s", "a", "g", "e">>])
            /\ pc' = "exit"
            /\ exitCode' = 1
            /\ UNCHANGED <<log, input, pos, pass, chunks, passEnd>>
       ELSE /\ StartPass(stdin)
            /\ log' = Append(log, [ev |-> "stdin", name |-> <<>>, ok |-> TRUE])
            /\ UNCHANGED <<stdout, exitCode>>
    /\ UNCHANGED <<args, fs, stdin, idx, counts, fileCounts, totalCounts, stderr>>

\* No file operand: processInput(os.Stdin, options) begins.
StartStdin ==
    /\ pc = "start"
    /\ parseArgs(args).err = <<>>
    /\ ~parseArgs(args).options.HelpRequested
    /\ Len(parseArgs(args).filenames) = 0
    /\ options' = MainOptions(parseArgs(args).options)
    /\ filenames' = <<>>
    /\ StartPass(stdin)
    /\ log' = Append(log, [ev |-> "stdin", name |-> <<>>, ok |-> TRUE])
    /\ UNCHANGED <<args, fs, stdin, idx, counts, fileCounts, totalCounts, stdout,
                   stderr, exitCode>>

\* File operands: the range loop over filenames begins.
StartFiles ==
    /\ pc = "start"
    /\ parseArgs(args).err = <<>>
    /\ ~parseArgs(args).options.HelpRequested
    /\ Len(parseArgs(args).filenames) > 0
    /\ options' = MainOptions(parseArgs(args).options)
    /\ filenames' = parseArgs(args).filenames
    /\ idx' = 1
    /\ fileCounts' = <<>>
    /\ totalCounts' = EmptyMap
    /\ pc' = "loop"
    /\ UNCHANGED <<args, log, fs, stdin, input, pos, pass, chunks, passEnd, counts, stdout,
                   stderr, exitCode>>

\* Faulty variant: a file that cannot be opened ends the run with exit code 1.
OpenFailExit ==
    /\ pc = "loop"
    /\ idx <= Len(filenames)
    /\ ~fs[filenames[idx]].exists
    /\ stderr' = Append(stderr, [kind |-> "Error opening", what |-> filenames[idx]])
    /\ log' = Append(log, [ev |-> "open", name |-> filenames[idx], ok |-> FALSE])
    /\ pc' = "exit"
    /\ exitCode' = 1
    /\ UNCHANGED <<args, fs, stdin, options, filenames, idx, input, pos, pass, chunks,
                   passEnd, counts, fileCounts, totalCounts, stdout>>

\* os.Open fails: reported, and the loop continues with the next file.
OpenFail ==
    /\ pc = "loop"
    /\ idx <= Len(filenames)
    /\ ~fs[filenames[idx]].exists
    /\ stderr' = Append(stderr, [kind |-> "Error opening", what |-> filenames[idx]])
    /\ idx' = idx + 1
    /\ log' = Append(log, [ev |-> "open", name |-> filenames[idx], ok |-> FALSE])
    /\ UNCHANGED <<args, fs, stdin, pc, options, filenames, input, pos, pass, chunks,
                   passEnd, counts, fileCounts, totalCounts, stdout, exitCode>>

\* os.Open succeeds: processInput(file, options) begins.
OpenOK ==
    /\ pc = "loop"
    /\ idx <= Len(filenames)
    /\ fs[filenames[idx]].exists
    /\ StartPass(fs[filenames[idx]].data)
    /\ log' = Append(log, [ev |-> "open", name |-> filenames[idx], ok |-> TRUE])
    /\ UNCHANGED <<args, fs, stdin, options, filenames, idx, counts, fileCounts,
                   totalCounts, stdout, stderr, exitCode>>

\* reader.Read returns n > 0 bytes: they are counted.  A read may return fewer
\* bytes than the stream still holds (io.Reader), never more than len(buf).
ReadChunk ==
    /\ pc = "reading"
    /\ \E n \in 1..Min(ChunkSize, Len(input) - pos) :
          LET chunk == SubSeq(input, pos + 1, pos + n)
          IN /\ pass' = CountChunk(pass, chunk)
             /\ chunks' = Append(chunks, chunk)
             /\ pos' = pos + n
    /\ UNCHANGED <<args, log, fs, stdin, pc, options, filenames, idx, input, passEnd, counts,
                   fileCounts, totalCounts, stdout, stderr, exitCode>>

\* reader.Read returns io.EOF on standard input: the counts are printed.
ReadEOFStdin ==
    /\ pc = "reading"
    /\ pos = Len(input)
    /\ Len(filenames) = 0
    /\ counts' = BuildCounts(options, pass)
    /\ passEnd' = "eof"
    /\ stdout' = Append(stdout, printCounts(counts', <<>>, options.Order))
    /\ pc' = "exit"
    /\ exitCode' = 0
    /\ UNCHANGED <<args, log, fs, stdin, options, filenames, idx, input, pos, pass, chunks,
                   fileCounts, totalCounts, stderr>>

\* reader.Read returns io.EOF on a file: its counts are kept and added to the total.
ReadEOFFile ==
    /\ pc = "reading"
    /\ pos = Len(input)
    /\ Len(filenames) > 0
    /\ counts' = BuildCounts(options, pass)
    /\ passEnd' = "eof"
    /\ fileCounts' = Append(fileCounts, [Filename |-> filenames[idx], Counts |-> counts'])
    /\ totalCounts' = AddTotals(totalCounts, counts')
    /\ idx' = idx + 1
    /\ pc' = "loop"
    /\ log' = Append(log, [ev |-> "close", name |-> filenames[idx], ok |-> TRUE])
    /\ UNCHANGED <<args, fs, stdin, options, filenames, input, pos, pass, chunks, stdout,
                   stderr, exitCode>>

\* reader.Read fails on standard input: reported, exit 1.
ReadErrStdin ==
    /\ pc = "reading"
    /\ Len(filenames) = 0
    /\ counts' = EmptyMap
    /\ passEnd' = "err"
    /\ stderr' = Append(stderr, [kind |-> "Error processing stdin", what |-> <<>>])
    /\ pc' = "exit"
    /\ exitCode' = 1
    /\ UNCHANGED <<args, log, fs, stdin, options, filenames, idx, input, pos, pass, chunks,
                   fileCounts, totalCounts, stdout>>

\* Faulty variant: the counts reached before the read failed are kept and added
\* to the total.
ReadErrFileKeepsPartial ==
    /\ pc = "reading"
    /\ Len(filenames) > 0
    /\ counts' = BuildCounts(options, pass)
    /\ passEnd' = "err"
    /\ stderr' = Append(stderr, [kind |-> "Error processing", what |-> filenames[idx]])
    /\ fileCounts' = Append(fileCounts, [Filename |-> filenames[idx], Counts |-> counts'])
    /\ totalCounts' = AddTotals(totalCounts, counts')
    /\ idx' = idx + 1
    /\ pc' = "loop"
    /\ log' = Append(log, [ev |-> "close", name |-> filenames[idx], ok |-> FALSE])
    /\ UNCHANGED <<args, fs, stdin, options, filenames, input, pos, pass, chunks,
                   stdout, exitCode>>

\* reader.Read fails on a file: reported, and the loop continues with the next file.
ReadErrFile ==
    /\ pc = "reading"
    /\ Len(filenames) > 0
    /\ counts' = EmptyMap
    /\ passEnd' = "err"
    /\ stderr' = Append(stderr, [kind |-> "Error processing", what |-> filenames[idx]])
    /\ idx' = idx + 1
    /\ pc' = "loop"
    /\ log' = Append(log, [ev |-> "close", name |-> filenames[idx], ok |-> FALSE])
    /\ UNCHANGED <<args, fs, stdin, options, filenames, input, pos, pass, chunks,
                   fileCounts, totalCounts, stdout, exitCode>>

\* Faulty variant: the lines of fileCounts[i..], last file first.
RECURSIVE FileLinesReversed(_, _, _)
FileLinesReversed(fcs, i, order) ==
    IF i > Len(fcs) THEN <<>>
    ELSE FileLinesReversed(fcs, i + 1, order)
         \o <<printCounts(fcs[i].Counts, fcs[i].Filename, order)>>

\* The lines of fileCounts[i..], in order.
RECURSIVE FileLines(_, _, _)
FileLines(fcs, i, order) ==
    IF i > Len(fcs) THEN <<>>
    ELSE <<printCounts(fcs[i].Counts, fcs[i].Filename, order)>> \o FileLines(fcs, i + 1, order)

\* The total line, printed when more than one file was counted.
TotalLines(fcs, total, order) ==
    IF Len(fcs) > 1 THEN <<printCounts(total, TotalName, order)>> ELSE <<>>

\* After the loop: one line per counted file, then the total.
PrintResults ==
    /\ pc = "loop"
    /\ idx > Len(filenames)
    /\ stdout' = stdout \o FileLines(fileCounts, 1, options.Order)
                        \o TotalLines(fileCounts, totalCounts, options.Order)
    /\ pc' = "exit"
    /\ exitCode' = 0
    /\ UNCHANGED <<args, log, fs, stdin, options, filenames, idx, input, pos, pass, chunks,
                   passEnd, counts, fileCounts, totalCounts, stderr>>

Next ==
    \/ ArgError
    \/ Help
    \/ StartStdin
    \/ StartFiles
    \/ OpenFail
    \/ OpenOK
    \/ ReadChunk
    \/ ReadEOFStdin
    \/ ReadEOFFile
    \/ ReadErrStdin
    \/ ReadErrFile
    \/ PrintResults

Spec == Init /\ [][Next]_vars

(***************************************************************************)
(* Reference notions the properties are stated with.                       *)
(***************************************************************************)
\* The runes of a stream read one rune at a time from its start (ReadRune).
RECURSIVE Runes(_)
Runes(p) ==
    IF Len(p) = 0 THEN <<>>
    ELSE LET d == DecodeRune(p) IN <<d>> \o Runes(Drop(p, d.size))

\* Length of the well-formed UTF-8 sequence that starts at p[j], 0 if none does
\* (the Unicode standard's table of well-formed byte sequences).
WellFormedAt(p, j) ==
    LET b(k) == IF j + k <= Len(p) THEN p[j + k] ELSE -1
        in(x, lo, hi) == lo <= x /\ x <= hi
        c(k) == in(b(k), 128, 191)
    IN IF in(b(0), 0, 127) THEN 1
       ELSE IF in(b(0), 194, 223) /\ c(1) THEN 2
       ELSE IF \/ b(0) = 224 /\ in(b(1), 160, 191) /\ c(2)
               \/ in(b(0), 225, 236) /\ c(1) /\ c(2)
               \/ b(0) = 237 /\ in(b(1), 128, 159) /\ c(2)
               \/ in(b(0), 238, 239) /\ c(1) /\ c(2) THEN 3
       ELSE IF \/ b(0) = 240 /\ in(b(1), 144, 191) /\ c(2) /\ c(3)
               \/ in(b(0), 241, 243) /\ c(1) /\ c(2) /\ c(3)
               \/ b(0) = 244 /\ in(b(1), 128, 143) /\ c(2) /\ c(3) THEN 4
       ELSE 0

\* The well-formed encoded characters of p, by the position they start at.
WellFormedStarts(p) == {j \in 1..Len(p) : WellFormedAt(p, j) > 0}

\* The bytes of p that are part of no well-formed encoded character.
MalformedBytes(p) ==
    {i \in 1..Len(p) : ~\E j \in WellFormedStarts(p) : j <= i /\ i < j + WellFormedAt(p, j)}

\* Characters of p under lenient decoding: one per well-formed character, one per
\* byte outside them.
LenientCount(p) == Cardinality(WellFormedStarts(p)) + Cardinality(MalformedBytes(p))

RECURSIVE SumLenient(_)
SumLenient(cs) == IF Len(cs) = 0 THEN 0 ELSE LenientCount(Head(cs)) + SumLenient(Tail(cs))

\* The newline characters of a stream.
NewlineCount(p) == Cardinality({i \in 1..Len(Runes(p)) : Runes(p)[i].r = 10})

\* The maximal runs of non-whitespace characters of a stream, counted by their
\* first characters.
WordRuns(p) ==
    LET rs == Runes(p)
    IN Cardinality({i \in 1..Len(rs) :
                       /\ ~IsSpace(rs[i].r)
                       /\ (i = 1 \/ IsSpace(rs[i - 1].r))})

\* Every character of the stream is encoded in a single byte.
AllSingleByte(p) == \A i \in 1..Len(Runes(p)) : Runes(p)[i].size = 1

\* The four counts of a pass.
Tally(p) == [m \in Metrics |-> Counter(p, m)]

\* A pass was read to end-of-stream.
PassDone == passEnd = "eof"

(***************************************************************************)
(* Properties.                                                             *)
(***************************************************************************)
\* C1: a stream delivered as two successive chunks, split at any point, gives the
\* same tally (bytes, lines, words, characters) as the stream delivered as one
\* chunk.
C1_TwoChunksAsOne ==
    (PassDone /\ Len(chunks) = 2) => Tally(pass) = Tally(CountChunk(NewPass, input))

\* C2: the line count of a pass read to end-of-stream is the number of newline
\* characters of the stream; an unterminated last line is not counted.
C2_LinesAreNewlines ==
    PassDone =>
        /\ pass.lineCount = NewlineCount(input)
        /\ "lines" \in DOMAIN counts => counts["lines"] = NewlineCount(input)

C2_Witness ==
    /\ PassDone
    /\ Len(chunks) >= 2
    /\ "lines" \in DOMAIN counts
    /\ counts["lines"] = 1
    /\ input[Len(input)] # 10

\* C3: the word count of a pass read to end-of-stream is the number of maximal
\* runs of non-whitespace characters of the stream.
C3_WordsAreRuns == PassDone => pass.wordCount = WordRuns(input)

\* C4: at every point of a pass byte count >= character count >= 0, and at the
\* end the two are equal exactly when every character of the stream is encoded in
\* a single byte.
C4_BytesAndCharacters ==
    /\ pass.byteCount >= pass.characterCount
    /\ pass.characterCount >= 0
    /\ PassDone => (pass.characterCount = pass.byteCount <=> AllSingleByte(input))

\* C5: the byte count of a pass read to end-of-stream is the length of the
\* stream, whether or not bytes were requested and whatever the stream holds.
C5_BytesAreLength ==
    PassDone =>
        /\ pass.byteCount = Len(input)
        /\ "bytes" \in DOMAIN counts => counts["bytes"] = Len(input)

C5_Witness ==
    /\ PassDone
    /\ ~options.ByteCount
    /\ Len(chunks) >= 2
    /\ MalformedBytes(input) # {}

\* C6: malformed input never stops a pass, and the character count of a pass read
\* to end-of-stream is, over the chunks decoded, one per well-formed character
\* plus exactly one per byte that is part of none.
C6_MalformedCountedOnce ==
    /\ (pc = "reading" /\ pos < Len(input)) => ENABLED ReadChunk
    /\ PassDone => pass.characterCount = SumLenient(chunks)

C6_Witness ==
    /\ PassDone
    /\ MalformedBytes(input) # {}
    /\ \E j \in WellFormedStarts(input) : WellFormedAt(input, j) > 1

\* C7: the map a pass read to end-of-stream returns has a key for a metric exactly
\* when the options request it, and the key's value is that metric's count, 0
\* included.
C7_KeysAreRequested ==
    PassDone =>
        /\ ("bytes" \in DOMAIN counts) <=> options.ByteCount
        /\ ("lines" \in DOMAIN counts) <=> options.LineCount
        /\ ("words" \in DOMAIN counts) <=> options.WordCount
        /\ ("characters" \in DOMAIN counts) <=> options.CharacterCount
        /\ \A m \in DOMAIN counts : counts[m] = Counter(pass, m)

C7_Witness ==
    /\ PassDone
    /\ input = <<>>
    /\ DOMAIN counts = {"lines", "words"}
    /\ counts["lines"] = 0

AllOptions == [NoOptions EXCEPT !.ByteCount = TRUE, !.LineCount = TRUE,
                                !.WordCount = TRUE, !.CharacterCount = TRUE]

\* processInput run to end-of-stream under options o on the chunks cs.
processInputOn(cs, o) == BuildCounts(o, CountChunks(NewPass, cs))

\* C8: every value in the map a pass returns is the value the same stream, read
\* in the same chunks, gets when all four metrics are selected.
C8_SelectionKeepsValues ==
    PassDone => \A m \in DOMAIN counts : counts[m] = processInputOn(chunks, AllOptions)[m]

C8_Witness ==
    /\ PassDone
    /\ DOMAIN counts = {"bytes", "characters"}
    /\ counts["bytes"] > counts["characters"]
    /\ Len(chunks) >= 2

\* The range loop is over and the result lines are printed.
FilesPrinted == pc = "exit" /\ Len(filenames) > 0 /\ idx > Len(filenames)

RECURSIVE SumField(_, _, _)
SumField(lines, n, j) == IF n = 0 THEN 0 ELSE lines[n].vals[j] + SumField(lines, n - 1, j)

\* C9: when a total line is printed it follows the lines of the counted files and
\* each of its values is the sum of the values above it.
C9_TotalIsSum ==
    (FilesPrinted /\ Len(fileCounts) > 1) =>
        LET n == Len(fileCounts)
        IN /\ Len(stdout) = n + 1
           /\ stdout[n + 1].name = TotalName
           /\ \A i \in 1..n :
                 /\ stdout[i].name = fileCounts[i].Filename
                 /\ stdout[i].vals = Fields(fileCounts[i].Counts, options.Order)
           /\ Len(stdout[n + 1].vals) = Len(options.Order)
           /\ \A j \in 1..Len(options.Order) :
                 stdout[n + 1].vals[j] = SumField(stdout, n, j)

C9_Witness ==
    /\ FilesPrinted
    /\ Len(fileCounts) = 2
    /\ stdout[1].vals # stdout[2].vals
    /\ \E j \in 1..Len(stdout[3].vals) : stdout[3].vals[j] = 2

\* The total lines among the lines printed.
TotalLineAt == {k \in 1..Len(stdout) : stdout[k].name = TotalName}

\* C10: after the run one line per counted input is printed, and a total line is
\* printed, once and last, exactly when more than one file is given on the
\* command line.
C10_TotalWhenSeveralFiles ==
    /\ FilesPrinted =>
          /\ Len(stdout) - Cardinality(TotalLineAt) = Len(fileCounts)
          /\ TotalLineAt = IF Len(filenames) > 1 THEN {Len(stdout)} ELSE {}
    /\ (pc = "exit" /\ PassDone /\ Len(filenames) = 0) =>
          Len(stdout) = 1 /\ TotalLineAt = {}

\* The positions of file operand f.
Operands(f) == {i \in 1..Len(filenames) : filenames[i] = f}

\* The result lines printed for file f.
LinesOf(f) == {k \in 1..Len(stdout) : stdout[k].name = f}

\* The reports of the given kind about f on the error stream.
Reports(kind, f) == {k \in 1..Len(stderr) : stderr[k] = [kind |-> kind, what |-> f]}

\* C11: after a run over file operands, each operand that cannot be opened is
\* reported on the error stream and has no result line, each other operand has a
\* result line or a read-failure report, and the exit code is 0.
C11_OpenFailureSkipsFile ==
    /\ FilesPrinted =>
          /\ exitCode = 0
          /\ \A f \in FileArgs :
                IF fs[f].exists
                THEN /\ Reports("Error opening", f) = {}
                     /\ Cardinality(LinesOf(f)) + Cardinality(Reports("Error processing", f))
                            = Cardinality(Operands(f))
                ELSE /\ Cardinality(Reports("Error opening", f)) = Cardinality(Operands(f))
                     /\ LinesOf(f) = {}
    /\ (Len(filenames) > 0 /\ ~options.HelpRequested) => exitCode # 1

C11_Witness ==
    /\ FilesPrinted
    /\ Len(filenames) = 2
    /\ ~fs[filenames[1]].exists
    /\ fs[filenames[2]].exists
    /\ Len(stdout) = 1
    /\ stdout[1].name = filenames[2]

FlagLetters == {"l", "w", "c", "m"}

\* arg is a flag cluster holding a character that is no flag.
HasIllegal(arg) ==
    /\ HasDashPrefix(arg)
    /\ arg \notin HelpArgs
    /\ \E k \in 2..Len(arg) : arg[k] \notin FlagLetters

\* The first argument that is such a cluster, 0 if there is none.
FirstIllegalArg(as) ==
    IF \E i \in 1..Len(as) : HasIllegal(as[i])
    THEN CHOOSE i \in 1..Len(as) :
            HasIllegal(as[i]) /\ \A j \in 1..(i - 1) : ~HasIllegal(as[j])
    ELSE 0

\* The first character of arg that is no flag.
FirstIllegalChar(arg) ==
    arg[CHOOSE k \in 2..Len(arg) :
            arg[k] \notin FlagLetters /\ \A j \in 2..(k - 1) : arg[j] \in FlagLetters]

\* The first help argument, 0 if there is none.
FirstHelpArg(as) ==
    IF \E i \in 1..Len(as) : as[i] \in HelpArgs
    THEN CHOOSE i \in 1..Len(as) :
            as[i] \in HelpArgs /\ \A j \in 1..(i - 1) : as[j] \notin HelpArgs
    ELSE 0

\* What the run does when the arguments are rejected: the illegal character is
\* named, the exit code is 1, and no stream was opened or read.
RejectedFor(c) ==
    pc # "start" =>
          /\ parseArgs(args).err = <<c>>
          /\ pc = "exit"
          /\ exitCode = 1
          /\ stderr[1] = [kind |-> "illegal option", what |-> <<c>>]
          /\ stdout = <<>>
          /\ log = <<>>
          /\ chunks = <<>>

\* C12 as claimed: every argument list with a cluster holding a character other
\* than l, w, c, m is rejected, naming the first such character.
C12_IllegalFlagIsFatal ==
    FirstIllegalArg(args) > 0 =>
        RejectedFor(FirstIllegalChar(args[FirstIllegalArg(args)]))

\* C12 as amended: it is rejected so when no -h or --help precedes that cluster.
C12_IllegalFlagBeforeHelpIsFatal ==
    (/\ FirstIllegalArg(args) > 0
     /\ FirstHelpArg(args) \in {0} \cup (FirstIllegalArg(args)..Len(args)))
    => RejectedFor(FirstIllegalChar(args[FirstIllegalArg(args)]))

C12_Witness ==
    /\ pc = "exit"
    /\ Len(args) = 2
    /\ args[1] \in FileArgs
    /\ fs[args[1]].exists
    /\ args[2] = <<"-", "l", "b">>
    /\ exitCode = 1

\* No argument enables a counting flag.
NoFlagEnabled(as) ==
    \A i \in 1..Len(as) :
        (HasDashPrefix(as[i]) /\ as[i] \notin HelpArgs) =>
            \A k \in 2..Len(as[i]) : as[i][k] \notin FlagLetters

\* The run got past the arguments and counts.
Counting ==
    /\ pc # "start"
    /\ parseArgs(args).err = <<>>
    /\ ~options.HelpRequested

\* C13: when no argument enables a counting flag, the selection counted and
\* printed is lines, words, bytes, in that order.
C13_DefaultSelection ==
    (Counting /\ NoFlagEnabled(args)) =>
        /\ options.LineCount /\ options.WordCount /\ options.ByteCount
        /\ ~options.CharacterCount
        /\ options.Order = <<"lines", "words", "bytes">>
        /\ PassDone => DOMAIN counts = {"lines", "words", "bytes"}
        /\ (PassDone /\ Len(filenames) = 0) =>
              stdout = <<[vals |-> <<pass.lineCount, pass.wordCount, pass.byteCount>>,
                          name |-> <<>>]>>
        /\ FilesPrinted =>
              \A i \in 1..Len(fileCounts) :
                  stdout[i].vals = <<fileCounts[i].Counts["lines"],
                                     fileCounts[i].Counts["words"],
                                     fileCounts[i].Counts["bytes"]>>

C13_Witness ==
    /\ args = <<<<"-">>>>
    /\ PassDone
    /\ stdout[1].vals = <<1, 1, 2>>

\* The metric a flag letter stands for.
MetricOf(c) ==
    CASE c = "l" -> "lines" [] c = "w" -> "words" [] c = "c" -> "bytes"
      [] c = "m" -> "characters"

\* The metrics of the flag letters of as, in the order the letters are given.
RECURSIVE LettersOf(_)
LettersOf(as) ==
    IF Len(as) = 0 THEN <<>>
    ELSE (IF HasDashPrefix(Head(as))
          THEN [k \in 1..(Len(Head(as)) - 1) |-> MetricOf(Head(as)[k + 1])]
          ELSE <<>>) \o LettersOf(Tail(as))

\* The order the metrics are requested in; lines, words, bytes without a flag.
RequestOrder(as) == IF NoFlagEnabled(as) THEN <<"lines", "words", "bytes">> ELSE LettersOf(as)

\* s without the later occurrences of its elements.
RECURSIVE Dedup(_)
Dedup(s) ==
    IF Len(s) = 0 THEN <<>>
    ELSE LET front == Dedup(SubSeq(s, 1, Len(s) - 1))
             last == s[Len(s)]
         IN IF \E k \in 1..Len(front) : front[k] = last THEN front ELSE Append(front, last)

\* Every line printed holds the counts of the metrics of order, in that order.
PrintedInOrder(order) ==
    /\ (PassDone /\ Len(filenames) = 0) =>
          stdout = <<[vals |-> [j \in 1..Len(order) |-> Counter(pass, order[j])],
                      name |-> <<>>]>>
    /\ FilesPrinted =>
          /\ \A i \in 1..Len(fileCounts) :
                stdout[i].vals = [j \in 1..Len(order) |-> fileCounts[i].Counts[order[j]]]
          /\ \A k \in TotalLineAt :
                stdout[k].vals = [j \in 1..Len(order) |-> totalCounts[order[j]]]

\* C14 as claimed: every line carries each requested metric once, in the order of
\* the first request of each.
C14_EachMetricOnceInOrder == Counting => PrintedInOrder(Dedup(RequestOrder(args)))

\* C14 as amended: every line carries one field per flag letter given, in the
\* order the letters are given, so a metric requested twice is printed twice.
C14_FieldPerFlagInOrder == Counting => PrintedInOrder(RequestOrder(args))

C14_Witness ==
    /\ PassDone
    /\ Len(filenames) = 0
    /\ args = <<<<"-", "m">>, <<"-", "w", "l", "c">>>>
    /\ stdout[1].vals = <<2, 1, 1, 2>>

\* No argument is a file operand.
NoOperand(as) == \A i \in 1..Len(as) : HasDashPrefix(as[i])

UsageLine == [vals |-> <<>>, name |-> <<"u", "s", "a", "g", "e">>]

\* What the run does when help is asked for: only the usage text is printed, the
\* exit code is 0, and no stream was opened or read.
HelpGiven ==
    pc # "start" =>
        /\ pc = "exit"
        /\ exitCode = 0
        /\ stdout = <<UsageLine>>
        /\ stderr = <<>>
        /\ log = <<>>
        /\ chunks = <<>>

\* C16 as claimed: whenever -h or --help is among the arguments, the run gives
\* help.
C16_HelpAnywhere == FirstHelpArg(args) > 0 => HelpGiven

\* C16 as amended: it does so when no cluster with an illegal character precedes
\* the first -h or --help.
C16_HelpBeforeIllegalFlag ==
    (/\ FirstHelpArg(args) > 0
     /\ FirstIllegalArg(args) \in {0} \cup (FirstHelpArg(args)..Len(args)))
    => HelpGiven

C16_Witness ==
    /\ pc = "exit"
    /\ Len(args) = 2
    /\ args[1] \in FileArgs
    /\ fs[args[1]].exists
    /\ args[2] \in HelpArgs
    /\ exitCode = 0

\* The visits the log records, one per file taken up: the file could not be
\* opened, it is being read, it was counted to end-of-stream and closed, or its
\* read failed and it was closed.  "overlap" marks a log in which a file is opened
\* or closed while another one is open.
RECURSIVE Visits(_)
Visits(l) ==
    IF Len(l) = 0 THEN <<>>
    ELSE IF l[1].ev # "open" THEN <<[name |-> l[1].name, res |-> "overlap"]>>
    ELSE IF ~l[1].ok THEN <<[name |-> l[1].name, res |-> "open failed"]>> \o Visits(Tail(l))
    ELSE IF Len(l) = 1 THEN <<[name |-> l[1].name, res |-> "reading"]>>
    ELSE IF l[2].ev = "close" /\ l[2].name = l[1].name
         THEN <<[name |-> l[1].name,
                 res |-> IF l[2].ok THEN "counted" ELSE "read failed"]>>
              \o Visits(Tail(Tail(l)))
    ELSE <<[name |-> l[1].name, res |-> "overlap"]>>

IsCounted(v) == v.res = "counted"

\* The visits that ended with a tally.
CountedVisits == SelectSeq(Visits(log), IsCounted)

\* The run counts file operands.
FileRun == Counting /\ Len(filenames) > 0

\* C17: in a run over file operands the files are taken up in argument order, a
\* file is opened only when every earlier one was counted or failed and is
\* closed, and the result lines, printed after the last file, name the counted
\* files in argument order.
C17_FilesOneAtATimeInOrder ==
    FileRun =>
        LET v == Visits(log)
        IN /\ Len(v) = IF pc = "reading" THEN idx ELSE idx - 1
           /\ \A i \in 1..Len(v) :
                 /\ v[i].name = filenames[i]
                 /\ v[i].res # "overlap"
                 /\ v[i].res = "reading" <=> (i = idx /\ pc = "reading")
           /\ pc # "exit" => stdout = <<>>
           /\ pc = "exit" =>
                 /\ Len(v) = Len(filenames)
                 /\ Len(stdout) >= Len(CountedVisits)
                 /\ \A k \in 1..Len(CountedVisits) : stdout[k].name = CountedVisits[k].name

C17_Witness ==
    /\ pc = "exit"
    /\ Len(filenames) = 2
    /\ filenames[1] # filenames[2]
    /\ Len(CountedVisits) = 2
    /\ stdout[1].name = filenames[1]
    /\ stdout[2].name = filenames[2]

\* The offsets at which the chunks cs end.
RECURSIVE Bounds(_, _)
Bounds(cs, acc) ==
    IF Len(cs) = 0 THEN {}
    ELSE {acc + Len(Head(cs))} \cup Bounds(Tail(cs), acc + Len(Head(cs)))

\* The offsets at which the characters rs end, and the start of the stream.
RECURSIVE UnitEnds(_, _)
UnitEnds(rs, acc) ==
    IF Len(rs) = 0 THEN {0}
    ELSE {acc + Head(rs).size} \cup UnitEnds(Tail(rs), acc + Head(rs).size)

\* Every chunk of the pass ends between two characters of the stream.
Aligned == Bounds(chunks, 0) \subseteq UnitEnds(Runes(input), 0)

\* C18: when every chunk of a pass ends between two characters, the word count
\* at end-of-stream is the number of words of the stream, which is the count the
\* stream gets when it is read as one chunk.
C18_WordAcrossChunks ==
    (PassDone /\ Aligned) =>
        /\ pass.wordCount = WordRuns(input)
        /\ pass.wordCount = CountChunk(NewPass, input).wordCount

C18_Witness ==
    /\ PassDone
    /\ Aligned
    /\ Len(chunks) = 2
    /\ chunks[1][Len(chunks[1])] = 97
    /\ chunks[2][1] = 97
    /\ pass.wordCount = 1

\* The sum of metric m over the first n entries of fcs.
RECURSIVE SumCounts(_, _, _)
SumCounts(fcs, n, m) ==
    IF n = 0 THEN 0 ELSE fcs[n].Counts[m] + SumCounts(fcs, n - 1, m)

\* C19: a pass that ends with a read error returns no tally.  On standard input
\* the run ends with exit code 1 and prints no counts.  On a file the failure is
\* reported, the counted files and the total hold nothing of it, the files after
\* it are still taken up, and it has no result line.
C19_ReadErrorDropsTally ==
    /\ passEnd = "err" => counts = EmptyMap
    /\ (passEnd = "err" /\ Len(filenames) = 0) =>
          /\ pc = "exit"
          /\ exitCode = 1
          /\ stdout = <<>>
          /\ stderr = <<[kind |-> "Error processing stdin", what |-> <<>>]>>
    /\ FileRun =>
          /\ Len(fileCounts) = Len(CountedVisits)
          /\ \A i \in 1..Len(fileCounts) : fileCounts[i].Filename = CountedVisits[i].name
          /\ \A m \in DOMAIN totalCounts :
                totalCounts[m] = SumCounts(fileCounts, Len(fileCounts), m)
          /\ \A i \in 1..Len(Visits(log)) :
                Visits(log)[i].res = "read failed" =>
                    Reports("Error processing", Visits(log)[i].name) # {}
          /\ pc = "exit" =>
                /\ Len(Visits(log)) = Len(filenames)
                /\ exitCode = 0
                /\ Len(stdout) - Cardinality(TotalLineAt) = Len(CountedVisits)

C19_Witness ==
    /\ FilesPrinted
    /\ Len(filenames) = 2
    /\ Visits(log)[1].res = "counted"
    /\ Visits(log)[2].res = "read failed"
    /\ pass.byteCount > 0
    /\ Len(stdout) = 1

\* C20: a pass starts with all counters 0 and outside a word, and its state is
\* the one the chunks read so far give from that start; the tally of a counted
\* single-byte file is the tally of its bytes alone, and the total of the words is
\* the sum of the words of the counted files.
C20_FreshPass ==
    /\ (pc = "reading" /\ pos = 0) => pass = NewPass
    /\ pc = "reading" => pass = CountChunks(NewPass, chunks)
    /\ PassDone => counts = processInputOn(chunks, options)
    /\ \A i \in 1..Len(fileCounts) :
          LET data == fs[fileCounts[i].Filename].data
          IN AllSingleByte(data) => fileCounts[i].Counts = processInputOn(<<data>>, options)
    /\ "words" \in DOMAIN totalCounts =>
          totalCounts["words"] = SumCounts(fileCounts, Len(fileCounts), "words")

C20_Witness ==
    /\ FilesPrinted
    /\ Len(fileCounts) = 2
    /\ "words" \in DOMAIN totalCounts
    /\ \A i \in 1..2 :
          /\ fs[fileCounts[i].Filename].data = <<97>>
          /\ fileCounts[i].Counts["words"] = 1
    /\ totalCounts["words"] = 2
    /\ WordRuns(<<97, 97>>) = 1

(***************************************************************************)
(* The rune-at-a-time processInput of the mwc build (src/main.go).         *)
(***************************************************************************)
\* The body of the ReadRune loop for one rune d = [r, size].
ReadRuneStep(p, d) ==
    LET w == WordStep([inWord |-> p.inWord, wordCount |-> p.wordCount], d.r)
    IN [byteCount |-> p.byteCount + d.size,
        characterCount |-> p.characterCount + 1,
        lineCount |-> IF d.r = 10 THEN p.lineCount + 1 ELSE p.lineCount,
        wordCount |-> w.wordCount,
        inWord |-> w.inWord]

\* The ReadRune loop over the runes rs, until io.EOF.
RECURSIVE ReadRuneLoop(_, _)
ReadRuneLoop(p, rs) ==
    IF Len(rs) = 0 THEN p ELSE ReadRuneLoop(ReadRuneStep(p, Head(rs)), Tail(rs))

\* The map the rune-at-a-time processInput returns for the stream data.  The
\* bufio.Reader refills its buffer until it holds a full rune, so the runes do
\* not depend on how the underlying reads divide the stream.
processInputReadRune(data, o) ==
    LET p == ReadRuneLoop(NewPass, Runes(data))
    IN [m \in Requested(o) |-> Counter(p, m)]

\* C21: the map a pass of the chunked reader returns at end-of-stream is the map
\* the rune-at-a-time reader returns for the same stream and selection, whatever
\* the chunks were.
C21_SameTallyBothReaders ==
    PassDone => counts = processInputReadRune(input, options)

====
